---- MODULE Spec2Model ----
(***************************************************************************)
(* einx operation compiler: vectorized map (einx/op/vmap.py) and index     *)
(* generation (einx/op/arange.py).                                         *)
(*                                                                         *)
(* Conventions.                                                            *)
(*   - A stage-3 axis is a record [name, value, marked].                   *)
(*   - A solved expression is [axes, nested]: its axes left to right, and  *)
(*     whether they are written as one Composition "(x y ..)".             *)
(*   - A tensor is represented by its shape, a sequence of sizes.          *)
(*   - Python positions are 0-based and "not present" is None; here        *)
(*     positions are 1-based and None is 0.                                *)
(***************************************************************************)
EXTENDS Integers, Sequences, FiniteSets, TLC

VARIABLES call, args, outcome

vars == <<call, args, outcome>>

\* ------------------------------------------------------------------ bounds
\* Most axes one expression holds.
MaxAxes == 2

\* ------------------------------------------------------------- sequences
\* Python's None, for an axis position (positions are 1-based here).
None == 0

Range(s) == {s[i] : i \in 1..Len(s)}

\* list.index(x), 1-based; None when x is not in s.
IndexOf(s, x) ==
    IF x \in Range(s)
    THEN CHOOSE i \in 1..Len(s) : s[i] = x /\ \A j \in 1..(i - 1) : s[j] # x
    ELSE None

\* list.remove(x) when x is in s: the first occurrence goes.
RemoveFirst(s, x) ==
    LET i == IndexOf(s, x)
    IN  IF i = None THEN s ELSE SubSeq(s, 1, i - 1) \o SubSeq(s, i + 1, Len(s))

RemoveAt(s, i) == SubSeq(s, 1, i - 1) \o SubSeq(s, i + 1, Len(s))

InsertAt(s, i, x) == SubSeq(s, 1, i - 1) \o <<x>> \o SubSeq(s, i, Len(s))

RECURSIVE Prod(_)
Prod(s) == IF s = <<>> THEN 1 ELSE Head(s) * Prod(Tail(s))

RECURSIVE Concat(_)
Concat(ss) == IF ss = <<>> THEN <<>> ELSE Head(ss) \o Concat(Tail(ss))

\* ------------------------------------------------- solved expression model
Names == {"a", "b", "c"}

\* The size the solver gave each axis name; one size per name everywhere.
AxisValue(n) == CASE n = "a" -> 2 [] n = "b" -> 3 [] OTHER -> 4

Axis(n, m) == [name |-> n, value |-> AxisValue(n), marked |-> m]

AxisNames(root) == [i \in 1..Len(root) |-> root[i].name]

Shape(root) == [i \in 1..Len(root) |-> root[i].value]

is_marked(v) == v.marked

get_marked(root) == SelectSeq(root, is_marked)

\* expr.shape of a structured expression: a Composition is one dimension.
ExprShape(e) == IF e.nested THEN <<Prod(Shape(e.axes))>> ELSE Shape(e.axes)

\* get_marked(expr).shape of a structured expression.
MarkedShape(e) ==
    IF e.nested THEN <<Prod(Shape(get_marked(e.axes)))>> ELSE Shape(get_marked(e.axes))

\* util.flatten on expressions: the axes in order, the grouping dropped.
FlattenExprs(exprs) == [i \in 1..Len(exprs) |-> exprs[i].axes]

\* ------------------------------------------------------------ vmap_stage3
\* All axes of the roots, roots left to right, axes left to right.
AllAxes(roots) == Concat(roots)

\* The ordered list of vmapped axes: names of unmarked input axes, first seen first.
RECURSIVE FirstSeen(_, _)
FirstSeen(axes, acc) ==
    IF axes = <<>> THEN acc
    ELSE LET v == Head(axes)
         IN  FirstSeen(Tail(axes),
                       IF ~is_marked(v) /\ v.name \notin Range(acc)
                       THEN Append(acc, v.name) ELSE acc)

vmapped_axes_of(exprs_in_flat) == FirstSeen(AllAxes(exprs_in_flat), <<>>)

\* The first axis, inputs then outputs, that is vmapped by name but marked, or
\* unmarked but not vmapped by name; <<>> when every axis is consistent.
RECURSIVE FirstInconsistent(_, _)
FirstInconsistent(axes, vmapped_axes) ==
    IF axes = <<>> THEN <<>>
    ELSE LET v == Head(axes)
         IN  IF (v.name \in Range(vmapped_axes)) # (~is_marked(v))
             THEN <<v.name>>
             ELSE FirstInconsistent(Tail(axes), vmapped_axes)

\* Variant: the consistency scan reads the input expressions only.
InconsistentAxisInputsOnly(exprs_in_flat, exprs_out_flat, vmapped_axes) ==
    FirstInconsistent(AllAxes(exprs_in_flat), vmapped_axes)

InconsistentAxis(exprs_in_flat, exprs_out_flat, vmapped_axes) ==
    FirstInconsistent(AllAxes(exprs_in_flat) \o AllAxes(exprs_out_flat), vmapped_axes)

\* An unmarked output axis whose name no input has.
is_broadcast_axis(v, exprs_in_flat) ==
    /\ v.name \notin {x.name : x \in Range(AllAxes(exprs_in_flat))}
    /\ ~is_marked(v)

exprs_out_flat_without_broadcast(exprs_in_flat, exprs_out_flat) ==
    [j \in 1..Len(exprs_out_flat) |->
        SelectSeq(exprs_out_flat[j], LAMBDA v : ~is_broadcast_axis(v, exprs_in_flat))]

\* The loop over the vmapped axes.  names_in and names_out are the name lists the
\* loop shrinks as it goes; vmaps collects (in_axes, out_axes, out_shapes).
\* The result is [error, axis, out, vmaps]: error is "" when the loop completes,
\* else the axis and the (1-based) output expression the error names.
RECURSIVE VmapLoop(_, _, _, _)
VmapLoop(todo, names_in, names_out, vmaps) ==
    IF todo = <<>> THEN [error |-> "", axis |-> "", out |-> 0, vmaps |-> vmaps]
    ELSE
      LET v == Head(todo)
          in_axes == [i \in 1..Len(names_in) |-> IndexOf(names_in[i], v)]
          out_axes == [j \in 1..Len(names_out) |-> IndexOf(names_out[j], v)]
          missing == {j \in 1..Len(names_out) : out_axes[j] = None}
          out_shapes == [j \in 1..Len(names_out) |->
                            [k \in 1..Len(names_out[j]) |-> AxisValue(names_out[j][k])]]
      IN  IF missing # {}
          THEN [error |-> "MissingInOutput", axis |-> v,
                out |-> CHOOSE j \in missing : \A k \in missing : j <= k,
                vmaps |-> vmaps]
          ELSE VmapLoop(Tail(todo),
                        [i \in 1..Len(names_in) |-> RemoveFirst(names_in[i], v)],
                        [j \in 1..Len(names_out) |-> RemoveFirst(names_out[j], v)],
                        Append(vmaps, [in_axes |-> in_axes, out_axes |-> out_axes,
                                       out_shapes |-> out_shapes]))

\* Variant: the loop records a wrap even when an output lacks the vmapped axis.
RECURSIVE VmapLoopUnchecked(_, _, _, _)
VmapLoopUnchecked(todo, names_in, names_out, vmaps) ==
    IF todo = <<>> THEN [error |-> "", axis |-> "", out |-> 0, vmaps |-> vmaps]
    ELSE
      LET v == Head(todo)
      IN  VmapLoopUnchecked(
              Tail(todo),
              [i \in 1..Len(names_in) |-> RemoveFirst(names_in[i], v)],
              [j \in 1..Len(names_out) |-> RemoveFirst(names_out[j], v)],
              Append(vmaps,
                     [in_axes |-> [i \in 1..Len(names_in) |-> IndexOf(names_in[i], v)],
                      out_axes |-> [j \in 1..Len(names_out) |-> IndexOf(names_out[j], v)],
                      out_shapes |-> <<>>]))

BuildVmapsUnchecked(vmapped_axes, exprs_in_flat, exprs_out_wb) ==
    VmapLoopUnchecked(vmapped_axes,
                      [i \in 1..Len(exprs_in_flat) |-> AxisNames(exprs_in_flat[i])],
                      [j \in 1..Len(exprs_out_wb) |-> AxisNames(exprs_out_wb[j])],
                      <<>>)

BuildVmaps(vmapped_axes, exprs_in_flat, exprs_out_wb) ==
    VmapLoop(vmapped_axes,
             [i \in 1..Len(exprs_in_flat) |-> AxisNames(exprs_in_flat[i])],
             [j \in 1..Len(exprs_out_wb) |-> AxisNames(exprs_out_wb[j])],
             <<>>)

\* What the caller's function returns, given the shapes the declaration expects:
\* the right tensors, one too few, one too many, or one tensor of a wrong shape.
WrongShape(shape) == shape \o <<5>>

UserOp(op_ret, expected) ==
    CASE op_ret = "fewer" -> SubSeq(expected, 1, Len(expected) - 1)
      [] op_ret = "more" -> Append(expected, <<>>)
      [] op_ret = "bad_first" -> [expected EXCEPT ![1] = WrongShape(@)]
      [] op_ret = "bad_last" -> [expected EXCEPT ![Len(expected)] = WrongShape(@)]
      [] OTHER -> expected

\* Variant: the returned shapes are not compared with the declared ones.
NoBadShape(expected, tensors_out) == 0

\* The first (1-based) output whose returned shape differs from the declared one,
\* 0 when none does.
FirstBadShape(expected, tensors_out) ==
    LET bad == {i \in 1..Len(expected) : tensors_out[i] # expected[i]}
    IN  IF bad = {} THEN 0 ELSE CHOOSE i \in bad : \A k \in bad : i <= k

\* The inner op: unflatten the arriving flat tensors, call the caller's function,
\* check what it returns, flatten it.  Result [error, expected, actual, tensors,
\* op_args, called]: op_args are the shapes that arrived, called says whether the
\* caller's function ran.
InnerOp(exprs_in, exprs_out, op_ret, tensors_in_flat) ==
    LET exprs_in_funcargs == [i \in 1..Len(exprs_in) |-> MarkedShape(exprs_in[i])]
        exprs_out_funcargs == [j \in 1..Len(exprs_out) |-> MarkedShape(exprs_out[j])]
        exprs_in_funcargs_flat ==
            [i \in 1..Len(exprs_in) |-> Shape(get_marked(exprs_in[i].axes))]
        exprs_out_funcargs_flat ==
            [j \in 1..Len(exprs_out) |-> Shape(get_marked(exprs_out[j].axes))]
        tensors_out == UserOp(op_ret, exprs_out_funcargs)
        base == [error |-> "", expected |-> <<>>, actual |-> <<>>, tensors |-> <<>>,
                 op_args |-> tensors_in_flat, called |-> FALSE]
    IN  IF tensors_in_flat # exprs_in_funcargs_flat
        THEN [base EXCEPT !.error = "Unflatten",
                          !.expected = exprs_in_funcargs_flat,
                          !.actual = tensors_in_flat]
        ELSE IF Len(tensors_out) # Len(exprs_out_funcargs)
        THEN [base EXCEPT !.error = "OutputCount", !.called = TRUE,
                          !.expected = <<Len(exprs_out_funcargs)>>,
                          !.actual = <<Len(tensors_out)>>]
        ELSE IF FirstBadShape(exprs_out_funcargs, tensors_out) # 0
        THEN LET i == FirstBadShape(exprs_out_funcargs, tensors_out)
             IN  [base EXCEPT !.error = "OutputShape", !.called = TRUE,
                              !.expected = exprs_out_funcargs[i],
                              !.actual = tensors_out[i]]
        ELSE [base EXCEPT !.called = TRUE, !.tensors = exprs_out_funcargs_flat]

\* backend.vmap: the wrap built from vmaps[k] strips dimension in_axes[i] from input
\* i (None: the input is passed whole), calls what it wraps, and puts the stripped
\* dimension back into output j at out_axes[j].  vmaps[1] is the outermost wrap.
RECURSIVE RunWrapped(_, _, _, _, _, _)
RunWrapped(vmaps, k, exprs_in, exprs_out, op_ret, tensors) ==
    IF k > Len(vmaps) THEN InnerOp(exprs_in, exprs_out, op_ret, tensors)
    ELSE
      LET w == vmaps[k]
          mapped == {i \in 1..Len(tensors) : w.in_axes[i] # None}
          inrange == \A i \in mapped : w.in_axes[i] <= Len(tensors[i])
          sizes == {tensors[i][w.in_axes[i]] : i \in mapped}
          bad == [error |-> "BackendVmap", expected |-> <<>>, actual |-> <<>>,
                  tensors |-> <<>>, op_args |-> <<>>, called |-> FALSE]
      IN  IF ~inrange \/ Cardinality(sizes) # 1 THEN bad
          ELSE
            LET n == CHOOSE x \in sizes : TRUE
                stripped == [i \in 1..Len(tensors) |->
                                IF i \in mapped THEN RemoveAt(tensors[i], w.in_axes[i])
                                ELSE tensors[i]]
                r == RunWrapped(vmaps, k + 1, exprs_in, exprs_out, op_ret, stripped)
            IN  IF r.error # "" THEN r
                ELSE IF \E j \in 1..Len(r.tensors) :
                            w.out_axes[j] = None \/ w.out_axes[j] > Len(r.tensors[j]) + 1
                THEN [bad EXCEPT !.op_args = r.op_args, !.called = r.called]
                ELSE [r EXCEPT !.tensors =
                        [j \in 1..Len(r.tensors) |->
                            InsertAt(r.tensors[j], w.out_axes[j], n)]]

\* Variant: the wraps are applied in list order, so the last vmapped axis is outermost.
WrapOrderForward(vmaps) == [k \in 1..Len(vmaps) |-> vmaps[Len(vmaps) + 1 - k]]

\* The order in which the wraps nest, outermost first: op = backend.vmap(op, ..) is
\* applied over reversed(vmaps), so the last wrap applied, the outermost, is vmaps[1].
WrapOrder(vmaps) == vmaps

\* util.transpose_broadcast: the tensor's axes by name where the output has them,
\* the output axis' own size where the tensor lacks it.
transpose_broadcast(expr_out_wb, tensor, expr_out) ==
    [k \in 1..Len(expr_out) |->
        LET p == IndexOf(AxisNames(expr_out_wb), expr_out[k].name)
        IN  IF p = None THEN expr_out[k].value ELSE tensor[p]]

\* The backend capabilities one call used, in order.
InstantiateLog(tensors_in) ==
    SelectSeq([i \in 1..Len(tensors_in) |->
                  IF tensors_in[i] = "factory" THEN "factory" ELSE ""],
              LAMBDA e : e # "")

FlattenLog(exprs) ==
    SelectSeq([i \in 1..Len(exprs) |-> IF exprs[i].nested THEN "flatten_reshape" ELSE ""],
              LAMBDA e : e # "")

UnflattenLog(exprs) ==
    SelectSeq([i \in 1..Len(exprs) |-> IF exprs[i].nested THEN "unflatten_reshape" ELSE ""],
              LAMBDA e : e # "")

Repeat(e, n) == [i \in 1..n |-> e]

NoOutcome ==
    [status |-> "none", error |-> "", axis |-> "", out |-> 0,
     expected |-> <<>>, actual |-> <<>>, log |-> <<>>,
     vmapped_axes |-> <<>>, vmaps |-> <<>>, op_args |-> <<>>, op_called |-> FALSE,
     result |-> <<>>]

Raise(kind, log) == [NoOutcome EXCEPT !.status = "error", !.error = kind, !.log = log]

\* vmap_stage3(exprs_in, tensors_in, exprs_out, op): the whole call.
vmap_stage3(exprs_in, tensors_in, exprs_out, op_ret) ==
    IF Len(exprs_in) # Len(tensors_in) THEN Raise("ArgCount", <<>>)
    ELSE
    LET log1 == InstantiateLog(tensors_in) \o FlattenLog(exprs_in)
        tensors_flat == [i \in 1..Len(exprs_in) |-> Shape(exprs_in[i].axes)]
        exprs_in_flat == FlattenExprs(exprs_in)
        exprs_out_flat == FlattenExprs(exprs_out)
        vmapped_axes == vmapped_axes_of(exprs_in_flat)
        bad_axis == InconsistentAxis(exprs_in_flat, exprs_out_flat, vmapped_axes)
        exprs_out_wb == exprs_out_flat_without_broadcast(exprs_in_flat, exprs_out_flat)
        built == BuildVmaps(vmapped_axes, exprs_in_flat, exprs_out_wb)
    IN
    IF Len(vmapped_axes) = 0 THEN Raise("NoVmappedAxes", log1)
    ELSE IF bad_axis # <<>>
    THEN [Raise("Inconsistent", log1) EXCEPT !.axis = bad_axis[1],
                                             !.vmapped_axes = vmapped_axes]
    ELSE IF built.error # ""
    THEN [Raise(built.error, log1) EXCEPT !.axis = built.axis, !.out = built.out,
                                          !.vmapped_axes = vmapped_axes,
                                          !.vmaps = built.vmaps]
    ELSE
    LET vmaps == built.vmaps
        log2 == log1 \o Repeat("vmap", Len(vmaps))
        r == RunWrapped(WrapOrder(vmaps), 1, exprs_in, exprs_out, op_ret, tensors_flat)
        log3 == log2 \o (IF r.called THEN <<"op">> ELSE <<>>)
        ran == [NoOutcome EXCEPT !.vmapped_axes = vmapped_axes, !.vmaps = vmaps,
                                 !.op_args = r.op_args, !.op_called = r.called]
        n == IF Len(r.tensors) < Len(exprs_out_wb) THEN Len(r.tensors)
             ELSE Len(exprs_out_wb)
        wrong == {j \in 1..n : r.tensors[j] # Shape(exprs_out_wb[j])}
    IN
    IF r.error # ""
    THEN [ran EXCEPT !.status = "error", !.error = r.error, !.expected = r.expected,
                     !.actual = r.actual, !.log = log3]
    ELSE IF wrong # {}
    THEN [ran EXCEPT !.status = "error", !.error = "AssertShape",
                     !.log = log3 \o <<"assert_shape">>]
    ELSE
    LET flat == [j \in 1..n |->
                    transpose_broadcast(exprs_out_wb[j], r.tensors[j], exprs_out_flat[j])]
        tensors == [j \in 1..n |->
                       IF exprs_out[j].nested THEN <<Prod(flat[j])>> ELSE flat[j]]
    IN  [ran EXCEPT !.status = "ok", !.result = tensors,
                    !.log = log3 \o Repeat("assert_shape", n)
                                 \o Repeat("transpose_broadcast", n)
                                 \o UnflattenLog(exprs_out)]

\* --------------------------------------------------------- the calls made
AxisSet == {Axis(n, m) : n \in Names, m \in BOOLEAN}

\* Flat expressions of at most n axes: no axis name twice in one expression.
FlatExprs(n) ==
    {s \in UNION {[1..k -> AxisSet] : k \in 0..n} :
        \A i, j \in 1..Len(s) : s[i].name = s[j].name => i = j}

\* Structured expressions: flat, or (two axes and more) one Composition.
Exprs(n) ==
    {[axes |-> s, nested |-> FALSE] : s \in FlatExprs(n)}
        \cup {[axes |-> s, nested |-> TRUE] : s \in {t \in FlatExprs(n) : Len(t) >= 2}}

\* Lists of at most k expressions; a list of two has its second one flat.
ExprLists(k, n) ==
    {l \in UNION {[1..m -> Exprs(n)] : m \in 0..k} : Len(l) >= 2 => ~l[2].nested}

\* The expression lists of the calls drawn: at most three expressions of at most
\* MaxAxes axes, at most two on a side; or one input and one output of at most
\* MaxAxes + 1 axes.
NarrowCalls ==
    {p \in ExprLists(2, MaxAxes) \X ExprLists(2, MaxAxes) : Len(p[1]) + Len(p[2]) <= 3}

WideCalls == [1..1 -> Exprs(MaxAxes + 1)] \X [1..1 -> Exprs(MaxAxes + 1)]

CallExprs == NarrowCalls \cup WideCalls

OpRets(exprs_out) ==
    {"ok", "more"} \cup (IF Len(exprs_out) > 0 THEN {"fewer", "bad_last"} ELSE {})
                   \cup (IF Len(exprs_out) > 1 THEN {"bad_first"} ELSE {})

\* One tensor per input expression: concrete values, or (for the calls of one
\* input and one output) tensor factories; or one tensor too many (the call then
\* ends before it reads an expression, so these calls are drawn with no output
\* expression only).
TensorLists(exprs_in, exprs_out) ==
    {Repeat("value", Len(exprs_in))}
        \cup (IF <<exprs_in, exprs_out>> \in WideCalls
              THEN {Repeat("factory", Len(exprs_in))} ELSE {})
        \cup (IF exprs_out = <<>> THEN {Repeat("value", Len(exprs_in) + 1)} ELSE {})

\* The caller's function is consulted only by a call that gets as far as running it.
OpRetsOf(ei, ti, eo) ==
    IF vmap_stage3(ei, ti, eo, "ok").op_called THEN OpRets(eo) ELSE {"ok"}

InitVmap ==
    /\ call = "pending"
    /\ \E p \in CallExprs :
         \E ti \in TensorLists(p[1], p[2]) :
            \E r \in OpRetsOf(p[1], ti, p[2]) :
               args = [exprs_in |-> p[1], tensors_in |-> ti, exprs_out |-> p[2], op_ret |-> r]
    /\ outcome = NoOutcome

\* vmap(exprs_in, tensors_in, exprs_out, op=op): the call runs to its end.
Vmap ==
    /\ call = "pending"
    /\ call' = "returned"
    /\ outcome' = vmap_stage3(args.exprs_in, args.tensors_in, args.exprs_out, args.op_ret)
    /\ UNCHANGED args

NextVmap == Vmap

SpecVmap == InitVmap /\ [][NextVmap]_vars

\* ------------------------------------------------------- claims on vmap
Returned == call = "returned"

ArgsGiven == Len(args.exprs_in) = Len(args.tensors_in)

InAxes == AllAxes(FlattenExprs(args.exprs_in))

OutAxes == AllAxes(FlattenExprs(args.exprs_out))

\* Names that occur unmarked in some input.
UnmarkedInputNames == {v.name : v \in {x \in Range(InAxes) : ~x.marked}}

\* Names that occur marked in some input or output.
MarkedNames == {v.name : v \in {x \in Range(InAxes \o OutAxes) : x.marked}}

\* Unmarked output axes whose name no input has.
BroadcastNames ==
    {v.name : v \in {x \in Range(OutAxes) :
                        ~x.marked /\ x.name \notin {y.name : y \in Range(InAxes)}}}

\* Some axis is unmarked in an input and absent from some output expression.
VmappedAxisMissing ==
    \E n \in UnmarkedInputNames :
        \E j \in 1..Len(args.exprs_out) : n \notin Range(AxisNames(args.exprs_out[j].axes))

AxisUsageError ==
    /\ outcome.status = "error"
    /\ outcome.error \in {"Inconsistent", "MissingInOutput"}

\* C1 as stated: an axis unmarked in an input and absent from some output makes the
\* call fail with an axis-usage error raised before any backend capability was
\* called: no tensor factory, no reshape of input flattening, no backend.vmap wrap,
\* no run of the wrapped op.
C1_FailsBeforeAnyBackendCall ==
    (Returned /\ ArgsGiven /\ VmappedAxisMissing) =>
        (AxisUsageError /\ outcome.log = <<>>)

\* C1 amended: such a call fails with an axis-usage error raised before any
\* backend.vmap wrap is built and before the wrapped op runs; by then the tensor
\* factories have been called and the nested inputs reshaped by flattening.
C1_FailsBeforeVmapAndOp ==
    (Returned /\ ArgsGiven /\ VmappedAxisMissing) =>
        /\ AxisUsageError
        /\ ~outcome.op_called
        /\ "vmap" \notin Range(outcome.log)
        /\ "op" \notin Range(outcome.log)
        /\ outcome.log = InstantiateLog(args.tensors_in) \o FlattenLog(args.exprs_in)

C1_Witness ==
    /\ Returned /\ ArgsGiven /\ VmappedAxisMissing
    /\ outcome.error = "MissingInOutput"
    /\ "factory" \in Range(outcome.log)
    /\ "flatten_reshape" \in Range(outcome.log)

\* The call with the broadcast axes taken out of its output expressions.
WithoutBroadcastNames(exprs_out) ==
    [j \in 1..Len(exprs_out) |->
        [exprs_out[j] EXCEPT !.axes = SelectSeq(@, LAMBDA v : v.name \notin BroadcastNames)]]

\* C2: an unmarked output axis absent from every input is accepted: a call that
\* succeeds without its broadcast axes succeeds with them, and returns tensors of
\* the full declared output shapes.
C2_BroadcastAxisAccepted ==
    (/\ Returned /\ ArgsGiven
     /\ BroadcastNames # {}
     /\ vmap_stage3(args.exprs_in, args.tensors_in,
                    WithoutBroadcastNames(args.exprs_out), args.op_ret).status = "ok")
    => /\ outcome.status = "ok"
       /\ outcome.result = [j \in 1..Len(args.exprs_out) |-> ExprShape(args.exprs_out[j])]

\* C6: when the caller's function returns the wrong number of tensors or a tensor
\* of a wrong shape, the call fails with an error that carries the expected and the
\* actual count or shape, and returns nothing.
C6_WrongReturnFails ==
    (Returned /\ outcome.op_called /\ args.op_ret # "ok") =>
        LET declared == [j \in 1..Len(args.exprs_out) |-> MarkedShape(args.exprs_out[j])]
            returned == UserOp(args.op_ret, declared)
        IN  /\ outcome.status = "error"
            /\ outcome.result = <<>>
            /\ outcome.expected # outcome.actual
            /\ IF Len(returned) # Len(declared)
               THEN /\ outcome.error = "OutputCount"
                    /\ outcome.expected = <<Len(declared)>>
                    /\ outcome.actual = <<Len(returned)>>
               ELSE /\ outcome.error = "OutputShape"
                    /\ \E j \in 1..Len(declared) :
                          /\ returned[j] # declared[j]
                          /\ outcome.expected = declared[j]
                          /\ outcome.actual = returned[j]

\* Two outputs declared, the first returned right and the second wrong.
C6_Witness ==
    /\ Returned /\ outcome.op_called
    /\ args.op_ret = "bad_last" /\ Len(args.exprs_out) = 2
    /\ outcome.error = "OutputShape"
    /\ outcome.result = <<>>

\* Position in the input axes (inputs left to right) where name n is first unmarked.
FirstUnmarked(n) ==
    CHOOSE i \in 1..Len(InAxes) :
        /\ InAxes[i].name = n /\ ~InAxes[i].marked
        /\ \A j \in 1..(i - 1) : ~(InAxes[j].name = n /\ ~InAxes[j].marked)

\* The names of a root once the first k vmapped axes are gone.
NamesAfter(root, k) ==
    SelectSeq(AxisNames(root),
              LAMBDA n : n \notin {outcome.vmapped_axes[m] : m \in 1..k})

PreChecksPassed ==
    /\ outcome.status # "none"
    /\ outcome.error \notin {"ArgCount", "NoVmappedAxes", "Inconsistent", "MissingInOutput"}

C8_Witness ==
    /\ Returned /\ outcome.status = "ok"
    /\ \E i \in 1..Len(args.exprs_in) :
          LET root == args.exprs_in[i].axes
          IN  /\ Len(root) = 3
              /\ root[1].marked /\ ~root[2].marked /\ root[3].marked
              /\ outcome.op_args[i] = <<root[1].value, root[3].value>>

\* The first axis, inputs then outputs, whose marking disagrees with its name being
\* vmapped (unmarked in some input).
Offending ==
    LET all == InAxes \o OutAxes
    IN  {i \in 1..Len(all) : (all[i].name \in UnmarkedInputNames) # (~all[i].marked)}

FirstOffendingName ==
    LET all == InAxes \o OutAxes
    IN  all[CHOOSE i \in Offending : \A j \in Offending : i <= j].name

\* C10 as stated: every name unmarked in an input and marked somewhere makes the
\* call fail with an error naming that axis, before any wrap is built or the op run;
\* and a call with no unmarked input axis fails.
C10_ErrorNamesEveryMixedAxis ==
    (Returned /\ ArgsGiven) =>
        /\ \A n \in UnmarkedInputNames \cap MarkedNames :
              /\ outcome.error = "Inconsistent" /\ outcome.axis = n
              /\ "vmap" \notin Range(outcome.log) /\ ~outcome.op_called
        /\ UnmarkedInputNames = {} =>
              (outcome.status = "error" /\ outcome.error = "NoVmappedAxes")

\* C10 amended: such a call fails, before any wrap is built or the op run, with an
\* error that names the first axis (inputs, then outputs, left to right) that is
\* marked while its name is vmapped or unmarked while its name is not; that need
\* not be the axis in question.  A call with no unmarked input axis fails.
C10_ErrorNamesFirstOffendingAxis ==
    (Returned /\ ArgsGiven) =>
        /\ (UnmarkedInputNames \cap MarkedNames # {}) =>
              /\ outcome.status = "error"
              /\ outcome.error = "Inconsistent"
              /\ outcome.axis = FirstOffendingName
              /\ "vmap" \notin Range(outcome.log) /\ "op" \notin Range(outcome.log)
              /\ ~outcome.op_called
        /\ UnmarkedInputNames = {} =>
              (outcome.status = "error" /\ outcome.error = "NoVmappedAxes")

\* Two names used both ways; the error names the first only.
C10_Witness ==
    /\ Returned /\ ArgsGiven
    /\ Cardinality(UnmarkedInputNames \cap MarkedNames) = 2
    /\ outcome.error = "Inconsistent"
    /\ outcome.axis \in UnmarkedInputNames \cap MarkedNames

\* ========================================================================
\* Index generation (einx/op/arange.py).
\*
\* Here an axis is a leaf [name, value, marked, grp]: grp is 0 for an axis at the
\* top level and the number of the enclosing Composition "( .. )" otherwise; an
\* unnamed axis (an integer literal) has the name "_"; value 0 is "not yet solved".
\* An expression is [axes, concat]: its leaves left to right, and whether the tree
\* holds a Concatenation node.  A tensor is [shape, data], data in row-major order.
\* ========================================================================

\* Largest size a named parameter gives an axis.
MaxSize == 2

Leaf(n, v, m, g) == [name |-> n, value |-> v, marked |-> m, grp |-> g]

RECURSIVE GroupPrefix(_, _)
GroupPrefix(axes, g) ==
    IF axes # <<>> /\ Head(axes).grp = g
    THEN <<Head(axes)>> \o GroupPrefix(Tail(axes), g) ELSE <<>>

\* expr.shape: one dimension per top-level axis or Composition.
RECURSIVE GroupedShape(_)
GroupedShape(axes) ==
    IF axes = <<>> THEN <<>>
    ELSE IF Head(axes).grp = 0 THEN <<Head(axes).value>> \o GroupedShape(Tail(axes))
    ELSE LET pre == GroupPrefix(axes, Head(axes).grp)
         IN  <<Prod(Shape(pre))>> \o GroupedShape(SubSeq(axes, Len(pre) + 1, Len(axes)))

\* Row-major strides, index tuples (0-based coordinates) and their offsets.
Stride(shape, i) == Prod(SubSeq(shape, i + 1, Len(shape)))

Unravel(shape, p) == [i \in 1..Len(shape) |-> (p \div Stride(shape, i)) % shape[i]]

RECURSIVE Ravel(_, _)
Ravel(shape, idx) ==
    IF shape = <<>> THEN 0
    ELSE Head(idx) * Prod(Tail(shape)) + Ravel(Tail(shape), Tail(idx))

\* backend.arange(n): start 0, step 1.
BackendArange(n) == [i \in 1..n |-> i - 1]

\* The inputs handed to einx.rearrange: one per axis of the flat input, in order.
\* Variant: in reverse order.
RearrangeInputsReversed(expr_in_flat) ==
    [k \in 1..Len(expr_in_flat) |-> expr_in_flat[Len(expr_in_flat) + 1 - k]]

RearrangeInputs(expr_in_flat) == expr_in_flat

\* einx.rearrange of the 1-D inputs (input k spans the axis inputs[k]) into the flat
\* output whose marked axis was replaced by a Concatenation of ndim unit axes:
\* input k is broadcast over the output's unmarked axes and the results are joined
\* along the marked position.  It fails when the numbers of inputs and of
\* Concatenation children differ, when an input axis is no unmarked output axis,
\* or when an expression holds a name twice.  [ok, data]
Rearrange(inputs, tensors, expr_out_flat, ndim) ==
    LET names == AxisNames(expr_out_flat)
        mpos == {i \in 1..Len(expr_out_flat) : expr_out_flat[i].marked}
        unmarked == {i \in 1..Len(expr_out_flat) : ~expr_out_flat[i].marked}
        children == IF mpos = {} THEN 1 ELSE ndim
        flat_shape == [i \in 1..Len(expr_out_flat) |->
                          IF i \in mpos THEN ndim ELSE expr_out_flat[i].value]
        src(k) == CHOOSE i \in unmarked : names[i] = inputs[k].name
        fits ==
            /\ Len(inputs) = children
            /\ \A i, j \in unmarked : names[i] = names[j] => i = j
            /\ \A i, j \in 1..Len(inputs) : inputs[i].name = inputs[j].name => i = j
            /\ \A k \in 1..Len(inputs) : \E i \in unmarked : names[i] = inputs[k].name
    IN  IF ~fits THEN [ok |-> FALSE, data |-> <<>>]
        ELSE [ok |-> TRUE,
              data |-> [p \in 1..Prod(flat_shape) |->
                          LET idx == Unravel(flat_shape, p - 1)
                              k == IF mpos = {} THEN 1
                                   ELSE idx[CHOOSE i \in mpos : TRUE] + 1
                          IN  tensors[k][idx[src(k)] + 1]]]

\* Variant: two marked axes are let through.
TooManyMarkedLax(marked_axes) == Len(marked_axes) > 2

\* len(marked_axes) > 1
TooManyMarked(marked_axes) == Len(marked_axes) > 1

NoExpr == [axes |-> <<>>, concat |-> FALSE]

NoArange ==
    [status |-> "none", error |-> "", expr_in |-> NoExpr, expr_out |-> NoExpr,
     log |-> <<>>, aranges |-> <<>>, hook_runs |-> 0,
     result |-> [shape |-> <<>>, data |-> <<>>]]

Fail(kind, log) == [NoArange EXCEPT !.status = "error", !.error = kind, !.log = log]

\* arange_stage3(expr_in, expr_out, backend): the whole call.
arange_stage3(expr_in, expr_out) ==
    LET marked_axes == SelectSeq(expr_out.axes, is_marked)
    IN
    IF \E i \in 1..Len(expr_in.axes) : expr_in.axes[i].marked
    THEN Fail("MarkerInInput", <<>>)
    ELSE IF expr_in.concat \/ expr_out.concat THEN Fail("Concatenation", <<>>)
    ELSE IF TooManyMarked(marked_axes) THEN Fail("MarkedAxes", <<>>)
    ELSE
    LET ndim == IF Len(marked_axes) = 1 THEN marked_axes[1].value ELSE 1
        expr_in_flat == expr_in.axes
        expr_out_flat == expr_out.axes
        inputs == RearrangeInputs(expr_in_flat)
        aranges == [k \in 1..Len(inputs) |-> inputs[k].value]
        tensors == [k \in 1..Len(inputs) |-> BackendArange(inputs[k].value)]
        log1 == Repeat("arange", Len(inputs)) \o <<"rearrange">>
        r == Rearrange(inputs, tensors, expr_out_flat, ndim)
    IN  IF ~r.ok
        THEN [Fail("Rearrange", log1) EXCEPT !.aranges = aranges]
        ELSE [NoArange EXCEPT
                !.status = "ok", !.aranges = aranges,
                !.log = log1 \o <<"unflatten">>,
                !.expr_in = expr_in,
                !.expr_out = [expr_out EXCEPT !.axes =
                                 [i \in 1..Len(expr_out.axes) |->
                                     [expr_out.axes[i] EXCEPT !.marked = FALSE]]],
                !.result = [shape |-> GroupedShape(expr_out.axes), data |-> r.data]]

\* ------------------------------------------------------------ arange.parse
\* A description is its sequence of tokens: axis names, integer literals, the
\* brackets "(" ")" "[" "]", "," and "->" (no other token holds '-' or '>', so
\* splitting the token sequence at "->" is str.split("->")).

\* description.split(sep): the parts between the separators; always one at least.
RECURSIVE SplitOn(_, _, _)
SplitOn(tokens, sep, part) ==
    IF tokens = <<>> THEN <<part>>
    ELSE IF Head(tokens) = sep THEN <<part>> \o SplitOn(Tail(tokens), sep, <<>>)
    ELSE SplitOn(Tail(tokens), sep, Append(part, Head(tokens)))

Split(description, sep) == SplitOn(description, sep, <<>>)

LiteralValue(t) == CASE t = "1" -> 1 [] t = "2" -> 2 [] t = "3" -> 3 [] OTHER -> 0

IsLiteral(t) == t \in {"1", "2", "3"}

\* einx.expr.stage1.parse: the leaves of the tree, or a failure on unbalanced or
\* crossing brackets.  stack holds the brackets open so far, gid numbers the
\* top-level Compositions.
RECURSIVE Scan(_, _, _, _)
Scan(tokens, stack, gid, acc) ==
    IF tokens = <<>> THEN [ok |-> stack = <<>>, axes |-> acc]
    ELSE
      LET t == Head(tokens)
          top == IF stack = <<>> THEN "" ELSE stack[Len(stack)]
          pop == SubSeq(stack, 1, Len(stack) - 1)
      IN  CASE t = "(" ->
                 Scan(Tail(tokens), Append(stack, "("),
                      IF "(" \in Range(stack) THEN gid ELSE gid + 1, acc)
            [] t = "[" -> Scan(Tail(tokens), Append(stack, "["), gid, acc)
            [] t = ")" ->
                 IF top = "(" THEN Scan(Tail(tokens), pop, gid, acc)
                 ELSE [ok |-> FALSE, axes |-> <<>>]
            [] t = "]" ->
                 IF top = "[" THEN Scan(Tail(tokens), pop, gid, acc)
                 ELSE [ok |-> FALSE, axes |-> <<>>]
            [] t \in {",", "->"} -> [ok |-> FALSE, axes |-> <<>>]
            [] OTHER ->
                 Scan(Tail(tokens), stack, gid,
                      Append(acc, Leaf(IF IsLiteral(t) THEN "_" ELSE t, LiteralValue(t),
                                       "[" \in Range(stack),
                                       IF "(" \in Range(stack) THEN gid ELSE 0)))

Stage1Parse(tokens) == Scan(tokens, <<>>, 0, <<>>)

\* einx.expr.stage1.get_unmarked / get_marked
get_unmarked1(axes) == SelectSeq(axes, LAMBDA v : ~v.marked)

get_marked1(axes) == SelectSeq(axes, is_marked)

\* Variant: an elided description takes the output expression itself as its input.
ElidedInputUnstripped(expr_out) == expr_out

\* expr_in = einx.expr.stage1.get_unmarked(expr_out)
ElidedInput(expr_out) == get_unmarked1(expr_out)

\* Variant: ndim counts every output axis, marked or not.
HookNdimAllAxes(out_axes, marked_out_axes) == Len(out_axes)

\* ndim = len(out_axes) - len(marked_out_axes)
HookNdim(out_axes, marked_out_axes) == Len(out_axes) - Len(marked_out_axes)

\* after_stage2: fails on more than one marked output axis, else gives the
\* equation  marked part of the output == [ndim].  [error, ndim]
after_stage2(expr_out) ==
    LET out_axes == expr_out
        marked_out_axes == SelectSeq(out_axes, is_marked)
    IN  IF Len(marked_out_axes) > 1 THEN [error |-> "MarkedAxes", ndim |-> 0]
        ELSE [error |-> "", ndim |-> HookNdim(out_axes, marked_out_axes)]

\* einx.expr.solve: every named axis gets one size, from a parameter or from the
\* hook's equation (the product of the marked output axes is ndim); a literal keeps
\* its size.  Two different sizes for one axis are a contradiction; an axis left
\* without a size makes the system underdetermined.  The hook runs once.
Solve(expr_in, expr_out, parameters) ==
    LET hook == after_stage2(expr_out)
        marked == get_marked1(expr_out)
        named == {v.name : v \in {x \in Range(expr_in \o expr_out) : x.name # "_"}}
        hooked == IF Len(marked) = 1 /\ marked[1].name # "_" THEN {marked[1].name} ELSE {}
        given == {n \in DOMAIN parameters : parameters[n] # 0}
        clash ==
            \/ Len(marked) = 0 /\ hook.ndim # 1
            \/ Len(marked) = 1 /\ marked[1].name = "_" /\ marked[1].value # hook.ndim
            \/ \E n \in hooked \cap given : parameters[n] # hook.ndim
        value(v) == IF v.name = "_" THEN v.value
                    ELSE IF v.name \in hooked THEN hook.ndim
                    ELSE parameters[v.name]
        solved(axes) == [i \in 1..Len(axes) |-> [axes[i] EXCEPT !.value = value(axes[i])]]
    IN  IF hook.error # "" THEN [error |-> hook.error, hook_runs |-> 1,
                                 expr_in |-> <<>>, expr_out |-> <<>>]
        ELSE IF clash THEN [error |-> "Contradiction", hook_runs |-> 1,
                            expr_in |-> <<>>, expr_out |-> <<>>]
        ELSE IF named \ (hooked \cup given) # {}
        THEN [error |-> "Underdetermined", hook_runs |-> 1,
              expr_in |-> <<>>, expr_out |-> <<>>]
        ELSE [error |-> "", hook_runs |-> 1,
              expr_in |-> solved(expr_in), expr_out |-> solved(expr_out)]

\* Variant: commas are not looked for.
HasCommaNever(part) == FALSE

\* "," in description[i]
HasComma(part) == "," \in Range(part)

\* arange.parse(description, **parameters): the whole call.
parse(description, parameters) ==
    LET parts == Split(description, "->")
    IN
    IF Len(parts) > 2 THEN Fail("TooManyArrows", <<>>)
    ELSE IF HasComma(parts[1]) THEN Fail("InputComma", <<>>)
    ELSE IF Len(parts) = 2 /\ HasComma(parts[2]) THEN Fail("OutputComma", <<>>)
    ELSE
    LET p1 == Stage1Parse(parts[1])
        p2 == IF Len(parts) = 2 THEN Stage1Parse(parts[2]) ELSE p1
        plog == IF Len(parts) = 2 THEN <<"stage1.parse", "stage1.parse">>
                ELSE <<"stage1.parse">>
        expr_out == p2.axes
        expr_in == IF Len(parts) = 2 THEN p1.axes ELSE ElidedInput(expr_out)
        s == Solve(expr_in, expr_out, parameters)
    IN  IF ~p1.ok THEN Fail("ParseError", <<"stage1.parse">>)
        ELSE IF ~p2.ok THEN Fail("ParseError", plog)
        ELSE IF s.error # ""
        THEN [Fail(s.error, plog \o <<"solve">>) EXCEPT !.hook_runs = s.hook_runs]
        ELSE [NoArange EXCEPT !.status = "ok", !.log = plog \o <<"solve">>,
                              !.hook_runs = s.hook_runs,
                              !.expr_in = [axes |-> s.expr_in, concat |-> FALSE],
                              !.expr_out = [axes |-> s.expr_out, concat |-> FALSE]]

\* ------------------------------------------------------- the calls made
\* What a side of a description is written from.
InItems == {<<"a">>, <<"b">>, <<"(", "a", "b", ")">>, <<"[", "b", "]">>, <<",">>}

OutItems ==
    {<<"a">>, <<"b">>, <<"(", "a", "b", ")">>, <<"[", "b", "]">>, <<",">>,
     <<"[", "2", "]">>, <<"[", "a", "b", "]">>}

Sides(items, n) == {Concat(l) : l \in UNION {[1..k -> items] : k \in 0..n}}

\* Descriptions: an output alone; an input and an output; three parts.
Descriptions ==
    Sides(OutItems, MaxAxes + 1)
        \cup {i \o <<"->">> \o o : i \in Sides(InItems, MaxAxes), o \in Sides(OutItems, MaxAxes + 1)}
        \cup {x \o <<"->">> \o y \o <<"->">> \o z :
                 x \in Sides(OutItems, 1), y \in Sides(OutItems, 1), z \in Sides(OutItems, 1)}

\* Named parameters: a size for "a" and for "b", 0 when the parameter is not given.
ParameterSets == [{"a", "b"} -> 0..MaxSize]

\* Solved expressions handed to arange_stage3 directly.
DirectInputs ==
    {[axes |-> [i \in 1..Len(s) |-> Leaf(s[i].name, s[i].value, s[i].marked, g)],
      concat |-> c] :
        s \in {t \in FlatExprs(MaxAxes) : \A i \in 1..Len(t) : t[i].name # "c"},
        g \in {0, 1}, c \in BOOLEAN}

DirectOutAxes ==
    {Leaf(n, AxisValue(n), m, 0) : n \in {"a", "b"}, m \in BOOLEAN}
        \cup {Leaf("_", v, TRUE, 0) : v \in 1..(MaxAxes + 1)}

DirectOutputs ==
    {[axes |-> s, concat |-> c] :
        s \in {t \in UNION {[1..k -> DirectOutAxes] : k \in 0..(MaxAxes + 1)} :
                  \A i, j \in 1..Len(t) :
                      (t[i].name = t[j].name /\ t[i].name # "_") => i = j},
        c \in BOOLEAN}

NoArgs == [description |-> <<>>, parameters |-> [n \in {"a", "b"} |-> 0],
           expr_in |-> NoExpr, expr_out |-> NoExpr]

InitArange ==
    /\ outcome = NoArange
    /\ \/ /\ call = "parse_pending"
          /\ \E d \in Descriptions, ps \in ParameterSets :
                args = [NoArgs EXCEPT !.description = d, !.parameters = ps]
       \/ /\ call = "stage3_pending"
          /\ \E ei \in DirectInputs, eo \in DirectOutputs :
                args = [NoArgs EXCEPT !.expr_in = ei, !.expr_out = eo]

\* arange.parse(description, **parameters)
Parse ==
    /\ call = "parse_pending"
    /\ outcome' = parse(args.description, args.parameters)
    /\ call' = IF outcome'.status = "ok" THEN "parsed" ELSE "parse_failed"
    /\ UNCHANGED args

\* arange_stage0 after its parse: arange_stage3 on the solved expressions.
Stage0 ==
    /\ call = "parsed"
    /\ args' = [args EXCEPT !.expr_in = outcome.expr_in, !.expr_out = outcome.expr_out]
    /\ outcome' = arange_stage3(outcome.expr_in, outcome.expr_out)
    /\ call' = "returned"

\* arange(expr_in, expr_out, backend=..): arange_stage3 called directly.
Stage3 ==
    /\ call = "stage3_pending"
    /\ outcome' = arange_stage3(args.expr_in, args.expr_out)
    /\ call' = "returned"
    /\ UNCHANGED args

NextArange == Parse \/ Stage0 \/ Stage3

SpecArange == InitArange /\ [][NextArange]_vars

\* ------------------------------------------------------ claims on arange
ParseDone == call \in {"parsed", "parse_failed"}

Arrows == Cardinality({i \in 1..Len(args.description) : args.description[i] = "->"})

Commas == {i \in 1..Len(args.description) : args.description[i] = ","}

SeparatorErrors == {"TooManyArrows", "InputComma", "OutputComma"}

\* The tokens after the last "->" (the whole description when it has none).
OutputTokens ==
    LET d == args.description
        arrows == {i \in 1..Len(d) : d[i] = "->"}
        last == IF arrows = {} THEN 0 ELSE CHOOSE i \in arrows : \A j \in arrows : j <= i
    IN  SubSeq(d, last + 1, Len(d))

\* Positions of the axis tokens of a side that stand inside "[ .. ]".
MarkedTokens(tokens) ==
    {i \in 1..Len(tokens) :
        /\ tokens[i] \notin {"(", ")", "[", "]", ",", "->"}
        /\ Cardinality({j \in 1..i : tokens[j] = "["})
              > Cardinality({j \in 1..i : tokens[j] = "]"})}

UnmarkedTokens(tokens) ==
    {i \in 1..Len(tokens) :
        /\ tokens[i] \notin {"(", ")", "[", "]", ",", "->"}
        /\ i \notin MarkedTokens(tokens)}

\* C3: an output expression with more than one marked axis always fails: in
\* arange.parse (by the hook, when the description gets that far), and in
\* arange_stage3 before any backend.arange, rearrange or unflatten.
C3_TwoMarkedAxesFail ==
    /\ (ParseDone /\ Cardinality(MarkedTokens(OutputTokens)) > 1) =>
          /\ outcome.status = "error"
          /\ outcome.error \notin (SeparatorErrors \cup {"ParseError"}) =>
                (outcome.error = "MarkedAxes" /\ outcome.hook_runs = 1)
    /\ (call = "returned" /\ Len(SelectSeq(args.expr_out.axes, is_marked)) > 1) =>
          /\ outcome.status = "error"
          /\ outcome.aranges = <<>>
          /\ outcome.log = <<>>
          /\ outcome.result.data = <<>>

C3_Witness ==
    /\ call = "returned"
    /\ Len(SelectSeq(args.expr_out.axes, is_marked)) = 2
    /\ outcome.error = "MarkedAxes"

C3_WitnessParse ==
    /\ call = "parse_failed"
    /\ Cardinality(MarkedTokens(OutputTokens)) = 2
    /\ outcome.error = "MarkedAxes" /\ outcome.hook_runs = 1

\* Index tuples (0-based coordinates) of a shape.
IndexTuples(shape) ==
    {idx \in [1..Len(shape) -> 0..(MaxSize + MaxAxes + 2)] :
        \A i \in 1..Len(shape) : idx[i] < shape[i]}

\* C4: arange_stage3 requests one backend.arange per axis of the flat input, in
\* input order and of that axis' size; in the result, of the solved output shape,
\* the entry at stacked position k of every output index tuple is the coordinate of
\* the k-th input axis, wherever that axis stands in the output.
C4_StackedCoordinates ==
    (call = "returned" /\ outcome.error \notin {"MarkerInInput", "Concatenation", "MarkedAxes"}) =>
        LET ins == args.expr_in.axes
            outs == args.expr_out.axes
            mpos == {i \in 1..Len(outs) : outs[i].marked}
            flat_shape == Shape(outs)
        IN  /\ outcome.aranges = Shape(ins)
            /\ Len(SelectSeq(outcome.log, LAMBDA e : e = "arange")) = Len(ins)
            /\ outcome.status = "ok" =>
                  /\ outcome.result.shape = GroupedShape(outs)
                  /\ Len(outcome.result.data) = Prod(flat_shape)
                  /\ \A idx \in IndexTuples(flat_shape) :
                        \A k \in 1..Len(ins) :
                           (mpos = {} \/ \E m \in mpos : idx[m] = k - 1) =>
                              \E i \in 1..Len(outs) :
                                 /\ outs[i].name = ins[k].name /\ ~outs[i].marked
                                 /\ outcome.result.data[Ravel(flat_shape, idx) + 1] = idx[i]

\* 'a b -> b a [2]': two input axes of different sizes, transposed in the output.
C4_Witness ==
    /\ call = "returned" /\ outcome.status = "ok"
    /\ args.description = <<"a", "b", "->", "b", "a", "[", "2", "]">>
    /\ args.parameters["a"] # args.parameters["b"]
    /\ outcome.result.shape = <<args.parameters["b"], args.parameters["a"], 2>>

\* The description '<input> -> <output>' that an elided description stands for:
\* the input is the output with its marked parts "[ .. ]" struck out.
StripMarked(tokens) ==
    LET keep == {i \in 1..Len(tokens) :
                    /\ tokens[i] \notin {"[", "]"}
                    /\ Cardinality({j \in 1..i : tokens[j] = "["})
                          = Cardinality({j \in 1..i : tokens[j] = "]"})}
    IN  SelectSeq([i \in 1..Len(tokens) |-> IF i \in keep THEN tokens[i] ELSE "[]"],
                  LAMBDA t : t # "[]")

Explicit(description) == StripMarked(description) \o <<"->">> \o description

\* C5: a description without "->" gives what '<output stripped of its marked axes>
\* -> <output>' gives: the same success or failure, the same solved pair.
C5_ElidedEqualsExplicit ==
    (ParseDone /\ Arrows = 0) =>
        LET e == parse(Explicit(args.description), args.parameters)
        IN  /\ outcome.status = e.status
            /\ outcome.expr_in = e.expr_in
            /\ outcome.expr_out = e.expr_out

C5_Witness ==
    /\ call = "parsed" /\ Arrows = 0
    /\ args.description = <<"a", "b", "[", "2", "]">>
    /\ Explicit(args.description) = <<"a", "b", "->", "a", "b", "[", "2", "]">>
    /\ Len(outcome.expr_in.axes) = 2 /\ Len(outcome.expr_out.axes) = 3

\* C7: more than one "->", or a comma on either side, is rejected before the
\* stage-1 parser and the solver are called; a description with at most one "->"
\* and no comma passes these checks.
C7_SeparatorsCheckedFirst ==
    ParseDone =>
        /\ Arrows > 1 => outcome.error = "TooManyArrows"
        /\ (Arrows <= 1 /\ Commas # {}) => outcome.error \in {"InputComma", "OutputComma"}
        /\ (Arrows > 1 \/ Commas # {}) => (outcome.status = "error" /\ outcome.log = <<>>)
        /\ (Arrows <= 1 /\ Commas = {}) =>
              /\ outcome.error \notin SeparatorErrors
              /\ outcome.log # <<>> /\ outcome.log[1] = "stage1.parse"

\* A comma on the output side only.
C7_Witness ==
    /\ call = "parse_failed" /\ Arrows = 1
    /\ \E i \in Commas : \E j \in 1..(i - 1) : args.description[j] = "->"
    /\ outcome.error = "OutputComma" /\ outcome.log = <<>>

\* C9: the hook runs once and forces the marked part of the output to the number
\* of unmarked output axes (those inside groups counted): every solved description
\* has its marked axis of that size; with no marked axis it has exactly one output
\* axis; a literal marked size that disagrees is a solver failure.
C9_MarkedSizeIsUnmarkedCount ==
    ParseDone =>
        LET outs == outcome.expr_out.axes
            marked == SelectSeq(outs, is_marked)
            ndim == Cardinality(UnmarkedTokens(OutputTokens))
            mtok == MarkedTokens(OutputTokens)
        IN  /\ call = "parsed" =>
                 /\ outcome.hook_runs = 1
                 /\ Len(marked) <= 1
                 /\ Len(outs) - Len(marked) = ndim
                 /\ Len(marked) = 1 => marked[1].value = ndim
                 /\ Len(marked) = 0 => Len(outs) = 1
            /\ (/\ outcome.error \notin (SeparatorErrors \cup {"ParseError"})
                /\ Cardinality(mtok) = 1
                /\ \E i \in mtok : IsLiteral(OutputTokens[i])
                                       /\ LiteralValue(OutputTokens[i]) # ndim)
               => (outcome.status = "error" /\ outcome.error = "Contradiction")

\* '(a b) [b]': the marked axis is named, its size comes from the hook and counts
\* the two axes inside the group.
C9_Witness ==
    /\ call = "parsed"
    /\ args.description = <<"(", "a", "b", ")", "[", "b", "]">>
    /\ \E i \in 1..Len(outcome.expr_out.axes) :
          outcome.expr_out.axes[i].marked /\ outcome.expr_out.axes[i].value = 2

C9_WitnessLiteral ==
    /\ call = "parse_failed"
    /\ args.description = <<"a", "[", "2", "]">>
    /\ outcome.error = "Contradiction"
====
